---- MODULE Spec2Model ----
(***************************************************************************)
(* Game of Life with a stagnation detector and a randomness controller     *)
(* (src/src/index.ts).  Probabilities and Math.random() values are kept as *)
(* integers in units of 0.0000001, so 0.00001 is 100 and 1.0 is 10000000.  *)
(***************************************************************************)
EXTENDS Integers, Sequences, FiniteSets, TLC

VARIABLES
    WIDTH,                        \* const WIDTH  = process.stdout.columns - 2
    HEIGHT,                       \* const HEIGHT = process.stdout.rows - 3
    board,                        \* start_game: let board
    prev_boards,                  \* start_game: let prev_boards
    only_a_flesh_wound_percent,   \* start_game: let only_a_flesh_wound_percent
    alien_abduction_percent,      \* start_game: let alien_abduction_percent
    cell_updater,                 \* start_game: let cell_updater (the closure in use)
    stagnant,                     \* result of prev_boards.some(...) in the last tick
    past,                         \* history: the boards shown before the current one, newest last
    recurred,                     \* history: how many ticks back the board checked last was last seen
    call,                         \* the exported function called last, with its arguments
    ret                           \* what that call returned

vars == <<WIDTH, HEIGHT, board, prev_boards, only_a_flesh_wound_percent,
          alien_abduction_percent, cell_updater, stagnant, past, recurred, call, ret>>

loop_vars == <<board, prev_boards, only_a_flesh_wound_percent,
               alien_abduction_percent, cell_updater, stagnant, past, recurred>>

-----------------------------------------------------------------------------
(* Program constants *)

\* process.stdout.columns and process.stdout.rows of the terminal of the run
Columns == 4
Rows == 5

\* Math.random() returns a value in [0, 1): 0 .. One - 1 in model units
One == 10000000
\* the 0.5 of cell_initializer and initialize_cell
Half == 5000000
\* only_a_flesh_wound_percent += 0.00001
FleshWoundIncrement == 100
\* alien_abduction_percent += 0.0000001
AbductionIncrement == 1
\* let prev_board_count = 6
prev_board_count == 6

(* Bounds of the model *)

\* stagnant ticks taken in one run of the game loop
MaxEscalations == 2
\* width and height arguments given to the board builders, and terminal sizes tried with them
MaxArg == 2
\* side of the grids given to the neighbour count and to the cell evaluator
MaxGrid == 3
\* rows, and cells per row, of the boards given to are_boards_equal
MaxEqRows == 2
MaxEqLen == 1

\* values Math.random() returns: the least one, one just above the first abduction
\* level, one between the first two flesh-wound levels, and the greatest one
Draws == {0, 1, 150, One - 1}
\* values on both sides of the 0.5 of the initializers
CoinDraws == {0, One - 1}
\* parameter values the cell evaluator is built with: none and one increment
FleshWoundLevels == {0, FleshWoundIncrement}
AbductionLevels == {0, AbductionIncrement}
\* the values Math.random() returns in the runs of the game loop: every one of Draws
\* but exactly 0
LoopDraws == Draws \ {0}

\* all boards of h rows of w cells
Grids(w, h) == [1..h -> [1..w -> BOOLEAN]]

\* the coordinates (x, y) of a board
CoordsOf(b) == {<<x, y>> : x \in 0..(Len(b[1]) - 1), y \in 0..(Len(b) - 1)}

-----------------------------------------------------------------------------
(* cell_updater_generator and the cell_updater it builds *)

\* the offsets [dy, dx] of const neighbors
neighbors ==
    << <<-1, -1>>, <<-1, 0>>, <<-1, 1>>,
       <<0, -1>>,             <<0, 1>>,
       <<1, -1>>,  <<1, 0>>,  <<1, 1>> >>

\* last_board[ny]?.[nx] ? 1 : 0 with wrap-around indices (negative index counts from the end)
neighbor_alive_wrapping(last_board, ny, nx) ==
    LET h == Len(last_board)
        w == Len(last_board[1])
    IN  IF last_board[((ny + h) % h) + 1][((nx + w) % w) + 1] THEN 1 ELSE 0

\* last_board[ny]?.[nx] ? 1 : 0 -- an index outside the array reads undefined, which is falsy
neighbor_alive(last_board, ny, nx) ==
    IF ny < 0 \/ ny >= Len(last_board) THEN 0
    ELSE IF nx < 0 \/ nx >= Len(last_board[ny + 1]) THEN 0
    ELSE IF last_board[ny + 1][nx + 1] THEN 1 ELSE 0

RECURSIVE reduce_neighbors(_, _, _, _, _)
\* neighbors.reduce((count, [dy, dx]) => ..., 0), from element k on
reduce_neighbors(k, count, x, y, last_board) ==
    IF k > Len(neighbors) THEN count
    ELSE LET dy == neighbors[k][1]
             dx == neighbors[k][2]
             nx == x + dx
             ny == y + dy
         IN  reduce_neighbors(k + 1, count + neighbor_alive(last_board, ny, nx),
                              x, y, last_board)

living_neighbors(x, y, last_board) == reduce_neighbors(1, 0, x, y, last_board)

\* the closure cell_updater_generator returns: the two captured parameters
cell_updater_generator(flesh_wound, abduction) ==
    [only_a_flesh_wound_percent |-> flesh_wound, alien_abduction_percent |-> abduction]

\* The return expression of cell_updater, from living_neighbors and last_board[y][x].
\* r1 is the Math.random() of the flesh-wound test and r2 the Math.random() of the
\* abduction test; || and && short-circuit, so each is drawn only where the expression
\* reaches it, and is unused otherwise.
cell_updater_return(closure, n, was_alive, r1, r2) ==
    ( (n = 3)
      \/ (n = 2 /\ was_alive)
      \/ (r1 < closure.only_a_flesh_wound_percent /\ was_alive) )
    /\ (r2 > closure.alien_abduction_percent)

\* cell_updater(x, y, last_board), with the two Math.random() values it may draw
cell_updater_call(closure, x, y, last_board, r1, r2) ==
    cell_updater_return(closure, living_neighbors(x, y, last_board),
                        last_board[y + 1][x + 1], r1, r2)

\* cell_initializer / initialize_cell: Math.random() < 0.5
cell_initializer(r) == r < Half

-----------------------------------------------------------------------------
(* update_row and update_board.  A cell evaluator is given by the set of the     *)
(* coordinates <<x, y>> at which its call returns true during this generation.   *)

cell_evaluator_call(cell_evaluator, x, y, last_board) == <<x, y>> \in cell_evaluator

RECURSIVE update_row_one_more(_, _, _, _, _)
\* update_row with the test width < 0 for width <= 0
update_row_one_more(width, height, cell_evaluator, last_board, row) ==
    IF width < 0 THEN row
    ELSE LET x == WIDTH - width
             y == HEIGHT - height
             new_row == Append(row, cell_evaluator_call(cell_evaluator, x, y, last_board))
         IN  update_row_one_more(width - 1, height, cell_evaluator, last_board, new_row)

RECURSIVE update_row(_, _, _, _, _)
update_row(width, height, cell_evaluator, last_board, row) ==
    IF width <= 0 THEN row
    ELSE LET x == WIDTH - width
             y == HEIGHT - height
             new_row == Append(row, cell_evaluator_call(cell_evaluator, x, y, last_board))
         IN  update_row(width - 1, height, cell_evaluator, last_board, new_row)

RECURSIVE update_board(_, _, _, _, _)
update_board(width, height, cell_evaluator, last_board, curr_board) ==
    IF height <= 0 THEN curr_board
    ELSE LET new_board ==
                 Append(curr_board, update_row(width, height, cell_evaluator, last_board, <<>>))
         IN  update_board(width, height - 1, cell_evaluator, last_board, new_board)

\* The evaluators a closure can be during one generation from last_board: at every
\* coordinate the value returned is cell_updater's for some pair of Math.random() values.
cell_updater_runs(closure, last_board) ==
    LET outcomes == [c \in CoordsOf(last_board) |->
                        LET n == living_neighbors(c[1], c[2], last_board)
                            was_alive == last_board[c[2] + 1][c[1] + 1]
                        IN  {cell_updater_return(closure, n, was_alive, r1, r2) :
                                r1 \in LoopDraws, r2 \in LoopDraws}]
        may  == {c \in DOMAIN outcomes : TRUE \in outcomes[c]}
        must == {c \in DOMAIN outcomes : FALSE \notin outcomes[c]}
    IN  {must \cup extra : extra \in SUBSET (may \ must)}

-----------------------------------------------------------------------------
(* initialize_row and initialize_board; rnd holds the values Math.random() returns *)
(* next, in order                                                                  *)

RECURSIVE initialize_row(_, _, _)
initialize_row(width, row, rnd) ==
    IF width <= 0 THEN row
    ELSE LET new_row == Append(row, cell_initializer(Head(rnd)))
         IN  initialize_row(width - 1, new_row, Tail(rnd))

RECURSIVE initialize_board(_, _, _, _)
initialize_board(width, height, init_board, rnd) ==
    IF height <= 0 THEN init_board
    ELSE LET new_board == Append(init_board, initialize_row(width, <<>>, rnd))
         IN  initialize_board(width, height - 1, new_board, SubSeq(rnd, width + 1, Len(rnd)))

-----------------------------------------------------------------------------
(* are_boards_equal *)

RECURSIVE cells_equal_from(_, _, _)
\* for (let j = ...; j < board1[i].length; j++) if (board1[i][j] !== board2[i][j]) return false
cells_equal_from(j, row1, row2) ==
    IF j > Len(row1) THEN TRUE
    ELSE IF row1[j] # row2[j] THEN FALSE
    ELSE cells_equal_from(j + 1, row1, row2)

RECURSIVE rows_equal_from(_, _, _)
\* for (let i = ...; i < board1.length; i++) { ... }
rows_equal_from(i, board1, board2) ==
    IF i > Len(board1) THEN TRUE
    ELSE IF Len(board1[i]) # Len(board2[i]) THEN FALSE
    ELSE IF ~cells_equal_from(1, board1[i], board2[i]) THEN FALSE
    ELSE rows_equal_from(i + 1, board1, board2)

\* are_boards_equal with the row loop starting at the second row
are_boards_equal_skip_first(board1, board2) ==
    IF Len(board1) # Len(board2) THEN FALSE
    ELSE rows_equal_from(2, board1, board2)

are_boards_equal(board1, board2) ==
    IF Len(board1) # Len(board2) THEN FALSE
    ELSE rows_equal_from(1, board1, board2)

-----------------------------------------------------------------------------
(* start_game: the body of the setInterval callback *)

\* prev_boards.some((prev_board) => are_boards_equal(board, prev_board))
some_prev_board_equal(b, boards) ==
    \E i \in 1..Len(boards) : are_boards_equal(b, boards[i])

\* the stagnant branch adding the increment to alien_abduction_percent only
flesh_wound_after_frozen(is_stagnant, flesh_wound) ==
    IF is_stagnant THEN flesh_wound
    ELSE IF flesh_wound > 0 THEN 0 ELSE flesh_wound

\* only_a_flesh_wound_percent after the if / else of the tick
flesh_wound_after(is_stagnant, flesh_wound) ==
    IF is_stagnant THEN flesh_wound + FleshWoundIncrement
    ELSE IF flesh_wound > 0 THEN 0 ELSE flesh_wound

\* alien_abduction_percent after the if / else of the tick: the else branch never assigns it
abduction_after(is_stagnant, abduction) ==
    IF is_stagnant THEN abduction + AbductionIncrement ELSE abduction

\* the tick without the cell_updater_generator call of the else branch
cell_updater_after_no_rebuild(is_stagnant, flesh_wound, abduction, updater) ==
    IF is_stagnant
    THEN cell_updater_generator(flesh_wound_after(is_stagnant, flesh_wound),
                                abduction_after(is_stagnant, abduction))
    ELSE updater

\* cell_updater after the if / else of the tick
cell_updater_after(is_stagnant, flesh_wound, abduction, updater) ==
    IF is_stagnant
    THEN cell_updater_generator(flesh_wound_after(is_stagnant, flesh_wound),
                                abduction_after(is_stagnant, abduction))
    ELSE IF flesh_wound > 0
         THEN cell_updater_generator(flesh_wound_after(is_stagnant, flesh_wound),
                                     abduction_after(is_stagnant, abduction))
         ELSE updater

\* the window update with pop() for shift(): the newest board is dropped, not the oldest
prev_boards_after_pop(boards, b) ==
    Append(IF Len(boards) >= prev_board_count
           THEN SubSeq(boards, 1, Len(boards) - 1) ELSE boards, b)

\* if (prev_boards.length >= prev_board_count) prev_boards.shift(); prev_boards.push(board)
prev_boards_after(boards, b) ==
    Append(IF Len(boards) >= prev_board_count THEN Tail(boards) ELSE boards, b)

\* history: how many ticks back b was last shown, among the boards of hist; 0 if in none
LastSeen(b, hist) ==
    LET ks == {k \in 1..Len(hist) : hist[Len(hist) + 1 - k] = b}
    IN  IF ks = {} THEN 0 ELSE CHOOSE k \in ks : \A m \in ks : k <= m

\* history: the prev_board_count + 1 boards shown last
PastAfter(hist, b) ==
    Append(IF Len(hist) >= prev_board_count + 1 THEN Tail(hist) ELSE hist, b)

NoCall == [fn |-> "none"]

\* the state when the first timer callback runs
Init ==
    /\ WIDTH = Columns - 2
    /\ HEIGHT = Rows - 3
    /\ \E rnd \in [(0..(WIDTH - 1)) \X (0..(HEIGHT - 1)) -> CoinDraws] :
           board = update_board(WIDTH, HEIGHT, {c \in DOMAIN rnd : cell_initializer(rnd[c])},
                                <<>>, <<>>)
    /\ prev_boards = <<>>
    /\ alien_abduction_percent = 0
    /\ only_a_flesh_wound_percent = 0
    /\ cell_updater = cell_updater_generator(0, 0)
    /\ stagnant = FALSE
    /\ past = <<>>
    /\ recurred = 0
    /\ call = NoCall
    /\ ret = NoCall

\* one run of the setInterval callback
Tick ==
    LET is_stagnant == some_prev_board_equal(board, prev_boards)
        updater == cell_updater_after(is_stagnant, only_a_flesh_wound_percent,
                                      alien_abduction_percent, cell_updater)
    IN  /\ is_stagnant => alien_abduction_percent < MaxEscalations * AbductionIncrement
        /\ stagnant' = is_stagnant
        /\ only_a_flesh_wound_percent' =
               flesh_wound_after(is_stagnant, only_a_flesh_wound_percent)
        /\ alien_abduction_percent' = abduction_after(is_stagnant, alien_abduction_percent)
        /\ cell_updater' = updater
        /\ prev_boards' = prev_boards_after(prev_boards, board)
        /\ \E ev \in cell_updater_runs(updater, board) :
               board' = update_board(WIDTH, HEIGHT, ev, board, <<>>)
        /\ recurred' = LastSeen(board, past)
        /\ past' = PastAfter(past, board)
        /\ UNCHANGED <<WIDTH, HEIGHT, call, ret>>

Next == Tick

Spec == Init /\ [][Next]_vars

-----------------------------------------------------------------------------
(* The exported functions called on their own, one call in a run; a later step of *)
(* board generation may follow a board builder                                    *)

\* the game loop is not running
Idle ==
    /\ board = <<>>
    /\ prev_boards = <<>>
    /\ alien_abduction_percent = 0
    /\ only_a_flesh_wound_percent = 0
    /\ cell_updater = cell_updater_generator(0, 0)
    /\ stagnant = FALSE
    /\ past = <<>>
    /\ recurred = 0
    /\ call = NoCall
    /\ ret = NoCall

InitCalls ==
    /\ WIDTH = Columns - 2
    /\ HEIGHT = Rows - 3
    /\ Idle

\* the boards of at most MaxGrid rows of at most MaxGrid cells
SmallGrids == UNION {Grids(w, h) : w \in 1..MaxGrid, h \in 1..MaxGrid}

\* the neighbour count of cell_updater at (x, y) of last_board
CallLivingNeighbors ==
    /\ call = NoCall
    /\ \E g \in SmallGrids : \E c \in CoordsOf(g) :
           /\ call' = [fn |-> "living_neighbors", x |-> c[1], y |-> c[2], last_board |-> g]
           /\ ret' = living_neighbors(c[1], c[2], g)
    /\ UNCHANGED <<WIDTH, HEIGHT, loop_vars>>

SpecNeighbors == InitCalls /\ [][CallLivingNeighbors]_vars

\* cell_updater_generator(fw, ab)(x, y, last_board), Math.random() returning r1 then r2
CallCellUpdater ==
    /\ call = NoCall
    /\ \E g \in SmallGrids : \E c \in CoordsOf(g) :
       \E fw \in FleshWoundLevels, ab \in AbductionLevels, r1 \in Draws, r2 \in Draws :
           /\ call' = [fn |-> "cell_updater", x |-> c[1], y |-> c[2], last_board |-> g,
                       only_a_flesh_wound_percent |-> fw, alien_abduction_percent |-> ab,
                       r1 |-> r1, r2 |-> r2]
           /\ ret' = cell_updater_call(cell_updater_generator(fw, ab), c[1], c[2], g, r1, r2)
    /\ UNCHANGED <<WIDTH, HEIGHT, loop_vars>>

SpecCell == InitCalls /\ [][CallCellUpdater]_vars

\* boards whose rows may differ in length
EqRows == UNION {[1..m -> BOOLEAN] : m \in 0..MaxEqLen}
EqBoards == UNION {[1..n -> EqRows] : n \in 0..MaxEqRows}

CallAreBoardsEqual ==
    /\ call = NoCall
    /\ \E b1 \in EqBoards, b2 \in EqBoards :
           /\ call' = [fn |-> "are_boards_equal", board1 |-> b1, board2 |-> b2]
           /\ ret' = are_boards_equal(b1, b2)
    /\ UNCHANGED <<WIDTH, HEIGHT, loop_vars>>

SpecEqual == InitCalls /\ [][CallAreBoardsEqual]_vars

\* the board builders under every terminal size of at most MaxArg by MaxArg cells
InitBuilders ==
    /\ WIDTH \in 1..MaxArg
    /\ HEIGHT \in 1..MaxArg
    /\ Idle

\* every coordinate update_row can pass on for arguments of at most MaxArg
PassedCoords ==
    ((WIDTH - MaxArg)..(WIDTH - 1)) \X ((HEIGHT - MaxArg)..(HEIGHT - 1))

\* initialize_board(width, height)
CallInitializeBoard ==
    /\ call = NoCall
    /\ \E w \in 1..MaxArg, h \in 1..MaxArg : \E rnd \in [1..(w * h) -> CoinDraws] :
           /\ call' = [fn |-> "initialize_board", evaluator |-> "initialize_cell",
                       width |-> w, height |-> h, at |-> <<0, 0>>]
           /\ ret' = initialize_board(w, h, <<>>, rnd)
    /\ UNCHANGED <<WIDTH, HEIGHT, loop_vars>>

\* update_board(width, height, cell_initializer)
CallUpdateBoardInitializer ==
    /\ call = NoCall
    /\ \E w \in 1..MaxArg, h \in 1..MaxArg :
       \E ev \in {{c \in PassedCoords : cell_initializer(rnd[c])} :
                      rnd \in [PassedCoords -> CoinDraws]} :
           /\ call' = [fn |-> "update_board", evaluator |-> "cell_initializer",
                       width |-> w, height |-> h, at |-> <<0, 0>>]
           /\ ret' = update_board(w, h, ev, <<>>, <<>>)
    /\ UNCHANGED <<WIDTH, HEIGHT, loop_vars>>

\* update_board(width, height, (x, y, last_board) => x === at[0] && y === at[1])
CallUpdateBoardProbe ==
    /\ call = NoCall
    /\ \E w \in 1..MaxArg, h \in 1..MaxArg :
       \E p \in PassedCoords \cup ((0..(MaxArg - 1)) \X (0..(MaxArg - 1))) :
           /\ call' = [fn |-> "update_board", evaluator |-> "probe",
                       width |-> w, height |-> h, at |-> p]
           /\ ret' = update_board(w, h, {p}, <<>>, <<>>)
    /\ UNCHANGED <<WIDTH, HEIGHT, loop_vars>>

\* a later step: update_board(WIDTH, HEIGHT, cell_updater, board) on the board built last
CallUpdateBoardUpdater ==
    /\ call.fn \in {"initialize_board", "update_board"}
    /\ call.width = WIDTH
    /\ call.height = HEIGHT
    /\ \E fw \in FleshWoundLevels, ab \in AbductionLevels :
       \E ev \in cell_updater_runs(cell_updater_generator(fw, ab), ret) :
           /\ call' = [fn |-> "update_board", evaluator |-> "cell_updater",
                       width |-> WIDTH, height |-> HEIGHT, at |-> <<0, 0>>]
           /\ ret' = update_board(WIDTH, HEIGHT, ev, ret, <<>>)
    /\ UNCHANGED <<WIDTH, HEIGHT, loop_vars>>

NextBuilders ==
    \/ CallInitializeBoard
    \/ CallUpdateBoardInitializer
    \/ CallUpdateBoardProbe
    \/ CallUpdateBoardUpdater

SpecBuilders == InitBuilders /\ [][NextBuilders]_vars

-----------------------------------------------------------------------------
(* Properties *)

\* the 8 Moore offsets <<dx, dy>>
MooreOffsets == {d \in (-1..1) \X (-1..1) : d # <<0, 0>>}

\* the live cells of g among the Moore neighbours of (x, y) that lie inside g
LiveMooreNeighbours(x, y, g) ==
    {d \in MooreOffsets :
        /\ x + d[1] \in 0..(Len(g[1]) - 1)
        /\ y + d[2] \in 0..(Len(g) - 1)
        /\ g[y + d[2] + 1][x + d[1] + 1]}

\* C1: with both parameters 0 the evaluator returns, whatever Math.random() returns, alive
\* for a live cell iff it has 2 or 3 live neighbours and for a dead cell iff it has exactly 3.
C1_BaseRuleWhenParametersZero ==
    (/\ call.fn = "cell_updater"
     /\ call.only_a_flesh_wound_percent = 0
     /\ call.alien_abduction_percent = 0)
    => LET n == Cardinality(LiveMooreNeighbours(call.x, call.y, call.last_board))
           was_alive == call.last_board[call.y + 1][call.x + 1]
       IN  ret = IF was_alive THEN n \in {2, 3} ELSE n = 3

\* C2: for a cell that was dead, or whose live-neighbour count is not 4, the value the
\* evaluator returns is the same for every abduction parameter and every abduction draw.
C2_AbductionOnlyAtFourNeighbours ==
    call.fn = "cell_updater"
    => LET n == Cardinality(LiveMooreNeighbours(call.x, call.y, call.last_board))
           was_alive == call.last_board[call.y + 1][call.x + 1]
       IN  (~was_alive \/ n # 4)
           => \A ab \in AbductionLevels, r2 \in Draws :
                  cell_updater_call(
                      cell_updater_generator(call.only_a_flesh_wound_percent, ab),
                      call.x, call.y, call.last_board, call.r1, r2) = ret

\* the current board is equal to one of the boards of the window
BoardInWindow == \E i \in 1..Len(prev_boards) : prev_boards[i] = board

\* C3: a tick at which the board is not stagnant lowers every parameter that is positive
\* (the tick changes a parameter by its value and the verdict alone, so a positive value
\* that a non-stagnant tick leaves as it is stays through every run of non-stagnant ticks
\* and never becomes 0).
C3_RelaxationFloor ==
    [][ ~BoardInWindow
        => /\ only_a_flesh_wound_percent > 0
               => only_a_flesh_wound_percent' < only_a_flesh_wound_percent
           /\ alien_abduction_percent > 0
               => alien_abduction_percent' < alien_abduction_percent ]_vars

\* C4: the cell at row r, column c of update_board(W, H, evaluator, previous_grid) is the
\* evaluator's result for (x = c, y = r), for every W >= 1 and H >= 1; stated for the
\* evaluators that return true at one coordinate only.
C4_CoordinatesFaithful ==
    (call.fn = "update_board" /\ call.evaluator = "probe")
    => \A r \in 0..(call.height - 1), c \in 0..(call.width - 1) :
           ret[r + 1][c + 1] = (<<c, r>> = call.at)

\* C5: the stagnation check of a tick is true iff the board checked is equal to one of the
\* prev_board_count boards shown before it (of all of them, while fewer were shown); a board
\* last shown prev_board_count + 1 ticks before does not make it true.
C5_StagnationWindow ==
    stagnant <=> (recurred \in 1..6)

\* the board checked was last shown 7 ticks before, and the check was false
C5_Witness ==
    /\ ~stagnant
    /\ recurred = 7
    /\ Len(past) = 7

C7_NeighbourCount ==
    call.fn = "living_neighbors"
    => /\ ret = Cardinality(LiveMooreNeighbours(call.x, call.y, call.last_board))
       /\ ret \in 0..8

\* a live corner cell of a 3 by 3 grid whose opposite edges are alive counts 0
C7_Witness ==
    /\ call.fn = "living_neighbors"
    /\ call.x = 0
    /\ call.y = 0
    /\ call.last_board = << <<TRUE, FALSE, TRUE>>, <<FALSE, FALSE, FALSE>>, <<TRUE, FALSE, TRUE>> >>
    /\ ret = 0

\* C8: a tick at which the board is stagnant adds exactly 0.00001 to
\* only_a_flesh_wound_percent and exactly 0.0000001 to alien_abduction_percent, so both
\* rise strictly over consecutive stagnant ticks.
C8_EscalationMonotone ==
    [][ BoardInWindow
        => /\ only_a_flesh_wound_percent' = only_a_flesh_wound_percent + 100
           /\ alien_abduction_percent' = alien_abduction_percent + 1 ]_vars

\* two stagnant ticks in a row
C8_Witness ==
    /\ stagnant
    /\ only_a_flesh_wound_percent = 200
    /\ alien_abduction_percent >= 2

\* C9: are_boards_equal(g, g) is true; it is false for boards of the same dimensions that
\* differ in a cell, and false for boards that differ in the number of rows or in the
\* length of a row.
C9_BoardEquality ==
    call.fn = "are_boards_equal"
    => LET a == call.board1
           b == call.board2
           same_shape == /\ Len(a) = Len(b)
                         /\ \A i \in 1..Len(a) : Len(a[i]) = Len(b[i])
       IN  /\ (a = b) => ret
           /\ (same_shape /\ \E i \in 1..Len(a) : \E j \in 1..Len(a[i]) : a[i][j] # b[i][j])
                  => ~ret
           /\ ~same_shape => ~ret

\* boards of the same shape that differ in the one cell of the second row only
C9_Witness ==
    /\ call.fn = "are_boards_equal"
    /\ call.board1 = << <<TRUE>>, <<TRUE>> >>
    /\ call.board2 = << <<TRUE>>, <<FALSE>> >>
    /\ ret = FALSE

\* C10: the evaluator used to generate the next board holds the current values of the two
\* parameters: a tick that changes a parameter rebuilds the evaluator.
C10_NoStaleEvaluator ==
    /\ cell_updater.only_a_flesh_wound_percent = only_a_flesh_wound_percent
    /\ cell_updater.alien_abduction_percent = alien_abduction_percent

\* the third tick was not stagnant and set only_a_flesh_wound_percent back to 0 after a
\* stagnant second tick
C10_Witness ==
    /\ Len(past) = 3
    /\ past[1] = past[2]
    /\ ~stagnant
    /\ only_a_flesh_wound_percent = 0
    /\ alien_abduction_percent = 1
    /\ cell_updater.only_a_flesh_wound_percent = 0

====
